---- MODULE Spec2Model ----
(***************************************************************************)
(* Adaption Prompt v2 (src/src/peft/tuners/adaption_prompt_v2.py).         *)
(*                                                                         *)
(* The model covers the module substitution and multi-adapter lifecycle    *)
(* engine of AdaptionPromptV2Model, the config validation of               *)
(* AdaptionPromptV2Config and prepare_config.                              *)
(*                                                                         *)
(* Python objects are modelled by value with an identity tag: a module is  *)
(* a record whose (cls, owner, layer) names the object; a decoder layer    *)
(* (the "parent" of an attention module) is its index 1..NumLayers.        *)
(* A method is an operator from the object's state (a record `s`) to the   *)
(* state it leaves behind; s.raised names the exception that ended it.     *)
(***************************************************************************)
EXTENDS Integers, Sequences, FiniteSets, TLC

\* Number of decoder layers of the base model (bound of the model).
NumLayers == 2

\* Longest supported_modals list given to AdaptionPromptV2Config (bound).
MaxModals == 2

\* Python's None, for Optional[str] fields and for _active_adapter.
None == "None"

\* No exception.
NoError == "none"

\* Adapter names the callers use.
AdapterNames == {"a", "b"}

\* Modal names the callers use ("" is the empty string).
ModalNames == {"", "image", "text"}

(***************************************************************************)
(* Generic helpers: Python dicts and list slicing.                         *)
(***************************************************************************)
\* d[k] = v on a dict.
Put(d, k, v) == [x \in (DOMAIN d) \cup {k} |-> IF x = k THEN v ELSE d[x]]

\* del d[k] on a dict.
Del(d, k) == [x \in (DOMAIN d) \ {k} |-> d[x]]

EmptyDict == [x \in {} |-> TRUE]

\* x in list
InSeq(x, seq) == \E i \in 1..Len(seq) : seq[i] = x

\* len(set(list))
SetLen(seq) == Cardinality({seq[i] : i \in 1..Len(seq)})

\* Python's list[start:] for any integer start.
PySliceFrom(seq, start) ==
    LET n == Len(seq)
        from == IF start < 0
                THEN (IF n + start < 0 THEN 0 ELSE n + start)
                ELSE (IF start > n THEN n ELSE start)
    IN SubSeq(seq, from + 1, n)

(***************************************************************************)
(* TRANSFORMERS_MODEL_CONFIG, prepare_config, AdaptionPromptV2Config.      *)
(***************************************************************************)
TRANSFORMERS_MODEL_CONFIG ==
    [mt \in {"llama", "gpt_neox", "gptj", "moss"} |->
        CASE mt = "llama" ->
                [attention_module |-> "self_attn", mlp_module |-> "mlp",
                 k_proj_layer |-> "k_proj", v_proj_layer |-> "v_proj",
                 o_proj_layer |-> "o_proj"]
          [] mt = "gpt_neox" ->
                [attention_module |-> "attention", mlp_module |-> "mlp",
                 k_proj_layer |-> "query_key_value", v_proj_layer |-> "query_key_value",
                 o_proj_layer |-> "dense"]
          [] mt = "gptj" ->
                [attention_module |-> "attn", mlp_module |-> "mlp",
                 k_proj_layer |-> "k_proj", v_proj_layer |-> "v_proj",
                 o_proj_layer |-> "out_proj"]
          [] mt = "moss" ->
                [attention_module |-> "attn", mlp_module |-> "mlp",
                 k_proj_layer |-> "qkv_proj", v_proj_layer |-> "qkv_proj",
                 o_proj_layer |-> "out_proj"]]

\* prepare_config that always writes the defaults of the model type.
prepare_config_Overwrite(peft_config, model_type) ==
    IF model_type \notin {"llama", "gpt_neox", "gptj", "moss"}
    THEN [raised |-> "ValueError", config |-> peft_config]
    ELSE [raised |-> "none",
          config |-> [peft_config EXCEPT
              !.attention_module =
                  IF model_type = "llama" THEN "self_attn"
                  ELSE IF model_type = "gpt_neox" THEN "attention" ELSE "attn",
              !.mlp_module = "mlp"]]

\* prepare_config(peft_config, model): the exception raised and the config
\* returned (the config object is updated in place).
prepare_config(peft_config, model_type) ==
    IF model_type \notin DOMAIN TRANSFORMERS_MODEL_CONFIG
    THEN [raised |-> "ValueError", config |-> peft_config]
    ELSE LET model_config == TRANSFORMERS_MODEL_CONFIG[model_type]
         IN [raised |-> NoError,
             config |-> [peft_config EXCEPT
                 !.attention_module =
                     IF @ = None THEN model_config.attention_module ELSE @,
                 !.mlp_module =
                     IF @ = None THEN model_config.mlp_module ELSE @]]

\* Optional[List[str]]: None, or a list of names.
NoList == [none |-> TRUE, names |-> <<>>]
ListOf(names) == [none |-> FALSE, names |-> names]

\* Python truthiness of an Optional[List]: None and [] are falsy.
Truthy(opt) == ~opt.none /\ Len(opt.names) > 0

\* `int != list` in Python: objects of different types never compare equal.
PyIntNeList(n, lst) == TRUE

\* __post_init__ without the check that a multi-modal config names its modals.
post_init_NoModalCheck(multi_modal, supported_modals) ==
    IF ~supported_modals.none /\ Len(supported_modals.names) > 0
    THEN IF Len(supported_modals.names) # SetLen(supported_modals.names)
         THEN "duplicate modal name found in supported_modals, please make sure each name is unique."
         ELSE "modal name can't be empty string."
    ELSE "none"

\* AdaptionPromptV2Config.__post_init__: the message of the ValueError it
\* raises, or NoError.
post_init(multi_modal, supported_modals) ==
    IF multi_modal /\ ~Truthy(supported_modals)
    THEN "name of supported modal has to be specified when is multi_modal mode."
    ELSE IF Truthy(supported_modals)
    THEN LET num_modals == Len(supported_modals.names)
         IN IF num_modals # SetLen(supported_modals.names)
            THEN "duplicate modal name found in supported_modals, please make sure each name is unique."
            ELSE IF PyIntNeList(num_modals,
                        SelectSeq(supported_modals.names, LAMBDA modal : modal # ""))
            THEN "modal name can't be empty string."
            ELSE NoError
    ELSE NoError

(***************************************************************************)
(* The object graph: modules, decoder layers, module names, parameters.    *)
(***************************************************************************)
VARIABLES
    model_type,       \* self.model.config.model_type
    layers,           \* layers[i][attr]: the module held by attribute attr of decoder layer i
    configs,          \* self._configs
    parents,          \* self._parents
    cached_adapters,  \* self._cached_adapters
    active_adapter,   \* self._active_adapter
    enabled,          \* self._enabled
    requires_grad,    \* requires_grad of every parameter that exists
    last,             \* the last call on the model: method, argument, exception raised
    call              \* the last call of a module-level function and its result

vars == <<model_type, layers, configs, parents, cached_adapters, active_adapter,
          enabled, requires_grad, last, call>>

Layers == 1..NumLayers

\* A module of the pretrained model: it wraps nothing (no attribute `model`).
BaseModule(cls, i) ==
    [cls |-> cls, owner |-> None, layer |-> i, model |-> <<>>, keys |-> <<>>,
     add_bias |-> FALSE, add_scale |-> FALSE]

\* AdaptedAttention.__init__: the keys of adaption_prompts / adaption_gates
\* are the supported modals when given, otherwise "text".
AdaptedAttention(owner, i, model, add_bias, add_scale, supported_modals) ==
    [cls |-> "AdaptedAttention", owner |-> owner, layer |-> i, model |-> <<model>>,
     keys |-> IF Truthy(supported_modals) THEN supported_modals.names ELSE <<"text">>,
     add_bias |-> add_bias, add_scale |-> add_scale]

\* AdaptedMLP.__init__
AdaptedMLP(owner, i, model, add_bias, add_scale) ==
    [cls |-> "AdaptedMLP", owner |-> owner, layer |-> i, model |-> <<model>>,
     keys |-> <<>>, add_bias |-> add_bias, add_scale |-> add_scale]

\* isinstance(m, AdaptedAttention) or isinstance(m, AdaptedMLP)
IsAdapted(m) == m.cls \in {"AdaptedAttention", "AdaptedMLP"}

\* hasattr(m, "model")
HasModel(m) == Len(m.model) > 0

\* A parameter: the module object it belongs to and its name there.
Param(owner, i, cls, pname, key) ==
    [owner |-> owner, layer |-> i, cls |-> cls, pname |-> pname, key |-> key]

\* The parameters of a module of the pretrained model.
BaseParams == {Param(None, i, cls, "weight", "") :
                   i \in Layers, cls \in {"Attention", "MLP"}}

\* The parameters an Adapted* module creates (AdaptedLinear's adaption_bias
\* and adaption_scale exist only with add_bias / add_scale).
NewParams(m) ==
    {Param(m.owner, m.layer, m.cls, pn, m.keys[k]) :
        pn \in {"adaption_prompts", "adaption_gates"}, k \in 1..Len(m.keys)}
    \cup (IF m.add_bias THEN {Param(m.owner, m.layer, m.cls, "adaption_bias", "")} ELSE {})
    \cup (IF m.add_scale THEN {Param(m.owner, m.layer, m.cls, "adaption_scale", "")} ELSE {})

\* nn.Parameter(...) has requires_grad = True.
Register(grad, m) ==
    [p \in (DOMAIN grad) \cup NewParams(m) |-> IF p \in DOMAIN grad THEN grad[p] ELSE TRUE]

\* "adaption_" in n, n.startswith("adaption_"): over the names that exist.
HasAdaptionPrefix(pname) ==
    pname \in {"adaption_prompts", "adaption_gates", "adaption_bias", "adaption_scale"}

\* module.named_modules(): the names below a module, as paths of name
\* components; "proj" stands for its nn.Linear children. A Linear reached
\* first through `model` is not listed again under `linears`.
ModuleNames(m) ==
    IF m.cls = "AdaptedAttention"
    THEN << <<>>, <<"model">>, <<"model", "proj">>, <<"adaption_prompts">>,
            <<"adaption_gates">>, <<"linears">>, <<"linears", "proj">> >>
    ELSE IF m.cls = "AdaptedMLP"
    THEN << <<>>, <<"model">>, <<"model", "proj">>, <<"linears">>, <<"linears", "proj">> >>
    ELSE << <<>>, <<"proj">> >>

\* The attributes of a decoder layer, in registration order.
LayerAttrs(mt) ==
    <<TRANSFORMERS_MODEL_CONFIG[mt].attention_module, TRANSFORMERS_MODEL_CONFIG[mt].mlp_module>>

RECURSIVE Flatten(_)
Flatten(seqs) == IF seqs = <<>> THEN <<>> ELSE Head(seqs) \o Flatten(Tail(seqs))

\* self.model.named_modules(): [layer, path] for every module below a layer.
named_modules(s) ==
    Flatten([i \in Layers |->
        Flatten([a \in 1..2 |->
            LET attr == LayerAttrs(s.model_type)[a]
                names == ModuleNames(s.layers[i][attr])
            IN [k \in 1..Len(names) |-> [layer |-> i, path |-> <<attr>> \o names[k]]]])])

\* name.endswith(suffix): the names of the model are dotted paths whose
\* components never end with a module name other than themselves.
EndsWith(name, suffix) == name.path[Len(name.path)] = suffix

\* The loop `for name, _ in named_modules(): if name.endswith(attention_module):
\* par = _get_submodules(model, name)[0]`: the parents found, in model order.
FindParents(s, attention_module) ==
    LET hits == SelectSeq(named_modules(s), LAMBDA name : EndsWith(name, attention_module))
    IN [k \in 1..Len(hits) |-> hits[k].layer]

\* The method ends by raising exc.
Raise(s, exc) == [s EXCEPT !.raised = exc]

(***************************************************************************)
(* AdaptionPromptV2Model                                                   *)
(***************************************************************************)
RECURSIVE RemoveLoop(_, _, _, _)
RemoveLoop(s, adapter_name, idx, adapted_module_groups) ==
    IF idx > Len(s.parents[adapter_name])
    THEN [s EXCEPT !.cached_adapters = Put(@, adapter_name, adapted_module_groups)]
    ELSE LET config == s.configs[adapter_name]
             par == s.parents[adapter_name][idx]
             attn == s.layers[par][config.attention_module]
             mlp == s.layers[par][config.mlp_module]
         IN IF ~HasModel(attn)
            THEN Raise(s, "AttributeError")
            ELSE LET s1 == [s EXCEPT !.layers[par][config.attention_module] = attn.model[1]]
                 IN IF ~HasModel(mlp)
                    THEN Raise(s1, "AttributeError")
                    ELSE RemoveLoop(
                            [s1 EXCEPT !.layers[par][config.mlp_module] = mlp.model[1]],
                            adapter_name, idx + 1,
                            Append(adapted_module_groups, <<attn, mlp>>))

\* _remove_adapted_modules
remove_adapted_modules(s, adapter_name) ==
    IF adapter_name \notin DOMAIN s.configs \/ adapter_name \notin DOMAIN s.parents
    THEN Raise(s, "KeyError")
    ELSE RemoveLoop(s, adapter_name, 1, <<>>)

RECURSIVE SetLoop(_, _, _, _)
SetLoop(s, adapter_name, cached, idx) ==
    IF idx > Len(s.parents[adapter_name])
    THEN s
    ELSE LET config == s.configs[adapter_name]
             par == s.parents[adapter_name][idx]
         IN IF idx > Len(cached)
            THEN Raise(s, "IndexError")
            ELSE SetLoop(
                    [s EXCEPT !.layers[par][config.attention_module] = cached[idx][1],
                              !.layers[par][config.mlp_module] = cached[idx][2]],
                    adapter_name, cached, idx + 1)

\* _set_adapted_modules without `del self._cached_adapters[adapter_name]`.
set_adapted_modules_NoDel(s, adapter_name) ==
    IF adapter_name \notin DOMAIN s.cached_adapters
    THEN Raise(s, "KeyError")
    ELSE SetLoop(s, adapter_name, s.cached_adapters[adapter_name], 1)

\* _set_adapted_modules
set_adapted_modules(s, adapter_name) ==
    IF adapter_name \notin DOMAIN s.cached_adapters
    THEN Raise(s, "KeyError")
    ELSE SetLoop([s EXCEPT !.cached_adapters = Del(@, adapter_name)],
                 adapter_name, s.cached_adapters[adapter_name], 1)

RECURSIVE CreateLoop(_, _, _, _)
CreateLoop(s, config, pars, i) ==
    IF i > Len(pars)
    THEN s
    ELSE LET par == pars[i]
             old_attn == s.layers[par][config.attention_module]
             old_mlp == s.layers[par][config.mlp_module]
         IN IF old_attn.cls = "AdaptedAttention"
            THEN Raise(s, "AssertionError")
            ELSE IF config.multi_modal /\ i = 1
            THEN LET attn == AdaptedAttention(s.active_adapter, par, old_attn,
                                              FALSE, FALSE, config.supported_modals)
                 IN CreateLoop(
                        [s EXCEPT !.layers[par][config.attention_module] = attn,
                                  !.requires_grad = Register(@, attn)],
                        config, pars, i + 1)
            ELSE LET attn == AdaptedAttention(s.active_adapter, par, old_attn,
                                              config.add_bias, config.add_scale, NoList)
                     mlp == AdaptedMLP(s.active_adapter, par, old_mlp,
                                       config.add_bias, config.add_scale)
                 IN IF old_mlp.cls = "AdaptedMLP"
                    THEN Raise(s, "AssertionError")
                    ELSE CreateLoop(
                            [s EXCEPT !.layers[par][config.attention_module] = attn,
                                      !.layers[par][config.mlp_module] = mlp,
                                      !.requires_grad = Register(Register(@, attn), mlp)],
                            config, pars, i + 1)

\* _create_adapted_modules: the new modules are owned by the adapter that
\* add_adapter has just made active.
create_adapted_modules(s, config, pars) == CreateLoop(s, config, pars, 1)

\* The name check looking at the active adapter only.
AlreadyExists_ActiveOnly(s, adapter_name) == adapter_name = s.active_adapter

\* add_adapter: `if adapter_name in self._configs`
AlreadyExists(s, adapter_name) == adapter_name \in DOMAIN s.configs

\* The layer count check off by one.
TooManyLayers_OffByOne(found, config) == Len(found) + 1 < config.adapter_layers

\* add_adapter: `if len(parents) < config.adapter_layers`
TooManyLayers(found, config) == Len(found) < config.adapter_layers

\* add_adapter, the end: `if not self._enabled: self._remove_adapted_modules(...)`
\* on the model as _create_adapted_modules left it.
AddCreated(s) ==
    IF s.raised # NoError
    THEN s
    ELSE IF ~s.enabled
    THEN remove_adapted_modules(s, s.active_adapter)
    ELSE s

\* add_adapter, on the model as the removal of the active adapter left it:
\* the new adapter becomes active and registered, its modules are created.
AddRemoved(s, adapter_name, config, pars) ==
    IF s.raised # NoError
    THEN s
    ELSE AddCreated(
            create_adapted_modules(
                [s EXCEPT !.active_adapter = adapter_name,
                          !.configs = Put(@, adapter_name, config)],
                config, pars))

\* add_adapter, from `self._parents[adapter_name] = parents` on.
AddParents(s, adapter_name, config, pars) ==
    AddRemoved(
        IF s.active_adapter # None /\ s.enabled
        THEN remove_adapted_modules([s EXCEPT !.parents = Put(@, adapter_name, pars)],
                                    s.active_adapter)
        ELSE [s EXCEPT !.parents = Put(@, adapter_name, pars)],
        adapter_name, config, pars)

\* add_adapter: the parents it keeps of those found, the last adapter_layers
\* ones and, for a multi-modal config, the first one.
SelectParents(found, config) ==
    LET first_parent == found[1]
        top == PySliceFrom(found, 0 - config.adapter_layers)
    IN IF config.multi_modal /\ ~InSeq(first_parent, top)
       THEN <<first_parent>> \o top
       ELSE top

\* add_adapter, from the layer count check on.
AddFound(s, adapter_name, config, found) ==
    IF TooManyLayers(found, config)
    THEN Raise(s, "ValueError")
    ELSE IF Len(found) = 0
    THEN Raise(s, "IndexError")
    ELSE AddParents(s, adapter_name, config, SelectParents(found, config))

\* add_adapter, after prepare_config.
AddPrepared(s, adapter_name, prepared) ==
    IF prepared.raised # NoError
    THEN Raise(s, prepared.raised)
    ELSE IF AlreadyExists(s, adapter_name)
    THEN Raise(s, "ValueError")
    ELSE AddFound(s, adapter_name, prepared.config,
                  FindParents(s, prepared.config.attention_module))

\* add_adapter
add_adapter(s, adapter_name, peft_config) ==
    AddPrepared(s, adapter_name, prepare_config(peft_config, s.model_type))

\* set_adapter, the end: `self._active_adapter = adapter_name` once the
\* cached modules are installed.
SetInstalled(s, adapter_name) ==
    IF s.raised # NoError
    THEN s
    ELSE [s EXCEPT !.active_adapter = adapter_name]

\* set_adapter on an enabled model, on the model as the removal of the
\* active adapter left it.
SetRemoved(s, adapter_name) ==
    IF s.raised # NoError
    THEN s
    ELSE SetInstalled(set_adapted_modules(s, adapter_name), adapter_name)

\* set_adapter without the check that the adapter is registered.
set_adapter_NoCheck(s, adapter_name) ==
    IF s.active_adapter = adapter_name
    THEN s
    ELSE IF s.enabled
    THEN SetRemoved(remove_adapted_modules(s, s.active_adapter), adapter_name)
    ELSE [s EXCEPT !.active_adapter = adapter_name]

\* set_adapter
set_adapter(s, adapter_name) ==
    IF s.active_adapter = adapter_name
    THEN s
    ELSE IF adapter_name \notin DOMAIN s.configs
    THEN Raise(s, "ValueError")
    ELSE IF s.enabled
    THEN SetRemoved(remove_adapted_modules(s, s.active_adapter), adapter_name)
    ELSE [s EXCEPT !.active_adapter = adapter_name]

\* enable_adapter_layers
enable_adapter_layers(s) ==
    set_adapted_modules([s EXCEPT !.enabled = TRUE], s.active_adapter)

\* disable_adapter_layers that forgets to swap the Adapted* modules out.
disable_adapter_layers_KeepsModules(s) == [s EXCEPT !.enabled = FALSE]

\* disable_adapter_layers
disable_adapter_layers(s) ==
    remove_adapted_modules([s EXCEPT !.enabled = FALSE], s.active_adapter)

RECURSIVE FreezeLoop(_, _, _, _, _, _)
FreezeLoop(s, config, pars, modal, mode, i) ==
    IF i > Len(pars)
    THEN s
    ELSE LET m == s.layers[pars[i]][config.attention_module]
             names == SelectSeq(ModuleNames(m),
                          LAMBDA n : n # <<>> /\ HasAdaptionPrefix(n[Len(n)]))
         IN IF names = <<>>
            THEN FreezeLoop(s, config, pars, modal, mode, i + 1)
            ELSE IF ~InSeq(modal, m.keys)
            THEN Raise(s, "KeyError")
            ELSE FreezeLoop(
                    [s EXCEPT !.requires_grad =
                        [p \in DOMAIN @ |->
                            IF \E k \in 1..Len(names) :
                                   p = Param(m.owner, m.layer, m.cls, names[k][1], modal)
                            THEN ~mode
                            ELSE @[p]]],
                    config, pars, modal, mode, i + 1)

\* freeze_adaption_params, from the choice of the parents on.
FreezeFound(s, config, given, modal, mode, found) ==
    IF given
    THEN IF Len(found) = 0
         THEN Raise(s, "IndexError")
         ELSE FreezeLoop(s, config, <<found[1]>>, modal, mode, 1)
    ELSE LET adapter_layers ==
                 IF config.multi_modal /\ config.adapter_layers = Len(found)
                 THEN config.adapter_layers - 1
                 ELSE config.adapter_layers
         IN IF adapter_layers <= 0
            THEN s
            ELSE FreezeLoop(s, config, PySliceFrom(found, 0 - adapter_layers),
                            "text", mode, 1)

\* freeze_adaption_params, after `if not self._enabled: return`.
FreezeEnabled(s, config, given, modal, mode) ==
    IF given /\ ~config.multi_modal
    THEN s
    ELSE IF given /\ config.supported_modals.none
    THEN Raise(s, "TypeError")
    ELSE IF given /\ ~InSeq(modal, config.supported_modals.names)
    THEN s
    ELSE FreezeFound(s, config, given, modal, mode,
                     FindParents(s, config.attention_module))

\* freeze_adaption_params(modal, mode); a modal of None or "" is falsy.
freeze_adaption_params(s, modal, mode) ==
    IF ~s.enabled
    THEN s
    ELSE FreezeEnabled(s, s.configs[s.active_adapter], modal # None /\ modal # "",
                       modal, mode)

\* unfreeze_adaption_params(modal)
unfreeze_adaption_params(s, modal) == freeze_adaption_params(s, modal, FALSE)

\* _mark_only_adaption_prompts_as_trainable with the name test inverted.
mark_only_adaption_prompts_as_trainable_Inverted(s) ==
    [s EXCEPT !.requires_grad =
        [p \in DOMAIN @ |-> IF HasAdaptionPrefix(p.pname) THEN FALSE ELSE @[p]]]

\* _mark_only_adaption_prompts_as_trainable
mark_only_adaption_prompts_as_trainable(s) ==
    [s EXCEPT !.requires_grad =
        [p \in DOMAIN @ |-> IF ~HasAdaptionPrefix(p.pname) THEN FALSE ELSE @[p]]]

\* The pretrained model handed to __init__, and the fields __init__ sets
\* before it calls add_adapter. The parameters of a pretrained model are
\* trainable.
Pretrained(mt) ==
    [model_type |-> mt,
     layers |-> [i \in Layers |->
                   [attr \in {LayerAttrs(mt)[1], LayerAttrs(mt)[2]} |->
                       IF attr = LayerAttrs(mt)[1]
                       THEN BaseModule("Attention", i)
                       ELSE BaseModule("MLP", i)]],
     configs |-> EmptyDict,
     parents |-> EmptyDict,
     cached_adapters |-> EmptyDict,
     active_adapter |-> None,
     enabled |-> TRUE,
     requires_grad |-> [p \in BaseParams |-> TRUE],
     raised |-> NoError]

\* __init__, after add_adapter returned.
InitAdded(s) ==
    IF s.raised # NoError
    THEN s
    ELSE mark_only_adaption_prompts_as_trainable(s)

\* AdaptionPromptV2Model.__init__(model, configs, adapter_name)
init(mt, adapter_name, peft_config) ==
    InitAdded(add_adapter(Pretrained(mt), adapter_name, peft_config))

(***************************************************************************)
(* The state machine: the calls a client makes on a constructed model.     *)
(***************************************************************************)
\* The model types the clients wrap.
ModelTypes == {"llama", "gptj"}

\* The configs the clients pass: adapter_layers up to one more than the
\* model has layers, text-only or multi-modal, module names left to
\* prepare_config, inference_mode False.
ConfigInputs ==
    {[adapter_layers |-> n, multi_modal |-> mm,
      supported_modals |-> IF mm THEN ListOf(<<"image">>) ELSE NoList,
      attention_module |-> None, mlp_module |-> None,
      add_bias |-> TRUE, add_scale |-> TRUE] :
        n \in 0..(NumLayers + 1), mm \in BOOLEAN}

\* The modal arguments the clients pass to freeze / unfreeze.
ModalInputs == {None, "image", "text"}

\* The object as the record the methods work on.
Self ==
    [model_type |-> model_type, layers |-> layers, configs |-> configs,
     parents |-> parents, cached_adapters |-> cached_adapters,
     active_adapter |-> active_adapter, enabled |-> enabled,
     requires_grad |-> requires_grad, raised |-> NoError]

\* The object after a call that left it as s.
Becomes(s, op, arg) ==
    /\ model_type' = s.model_type
    /\ layers' = s.layers
    /\ configs' = s.configs
    /\ parents' = s.parents
    /\ cached_adapters' = s.cached_adapters
    /\ active_adapter' = s.active_adapter
    /\ enabled' = s.enabled
    /\ requires_grad' = s.requires_grad
    /\ last' = [op |-> op, arg |-> arg, raised |-> s.raised]
    /\ UNCHANGED call

NoCall == [fn |-> "none"]

\* The model is the object s that __init__ built without raising.
Constructed(s, adapter_name) ==
    /\ s.raised = NoError
    /\ model_type = s.model_type
    /\ layers = s.layers
    /\ configs = s.configs
    /\ parents = s.parents
    /\ cached_adapters = s.cached_adapters
    /\ active_adapter = s.active_adapter
    /\ enabled = s.enabled
    /\ requires_grad = s.requires_grad
    /\ last = [op |-> "__init__", arg |-> adapter_name, raised |-> NoError]
    /\ call = NoCall

Init ==
    \E mt \in ModelTypes, adapter_name \in AdapterNames, peft_config \in ConfigInputs :
        Constructed(init(mt, adapter_name, peft_config), adapter_name)

AddAdapter(adapter_name, peft_config) ==
    Becomes(add_adapter(Self, adapter_name, peft_config), "add_adapter", adapter_name)

SetAdapter(adapter_name) ==
    Becomes(set_adapter(Self, adapter_name), "set_adapter", adapter_name)

EnableAdapterLayers ==
    Becomes(enable_adapter_layers(Self), "enable_adapter_layers", None)

DisableAdapterLayers ==
    Becomes(disable_adapter_layers(Self), "disable_adapter_layers", None)

FreezeAdaptionParams(modal) ==
    Becomes(freeze_adaption_params(Self, modal, TRUE), "freeze_adaption_params", modal)

UnfreezeAdaptionParams(modal) ==
    Becomes(unfreeze_adaption_params(Self, modal), "unfreeze_adaption_params", modal)

Next ==
    \/ \E adapter_name \in AdapterNames, peft_config \in ConfigInputs :
           AddAdapter(adapter_name, peft_config)
    \/ \E adapter_name \in AdapterNames : SetAdapter(adapter_name)
    \/ EnableAdapterLayers
    \/ DisableAdapterLayers
    \/ \E modal \in ModalInputs : FreezeAdaptionParams(modal)
    \/ \E modal \in ModalInputs : UnfreezeAdaptionParams(modal)

Spec == Init /\ [][Next]_vars

(***************************************************************************)
(* The module-level functions, applied to inputs drawn from small sets.    *)
(***************************************************************************)
\* supported_modals arguments: None and every list of at most MaxModals names.
RECURSIVE ListsUpTo(_)
ListsUpTo(n) ==
    IF n = 0
    THEN {<<>>}
    ELSE LET shorter == ListsUpTo(n - 1)
         IN shorter \cup {Append(l, m) : l \in {x \in shorter : Len(x) = n - 1}, m \in ModalNames}

ModalListInputs == {NoList} \cup {ListOf(l) : l \in ListsUpTo(MaxModals)}

\* Module names a user gives in a config (None: left to prepare_config).
ModuleNameInputs == {None, "attn", "my_module"}

\* model.config.model_type of the models handed to prepare_config.
ModelTypeInputs == {"llama", "gpt_neox", "gptj", "moss", "bert"}

\* AdaptionPromptV2Config(...): the dataclass fields, then __post_init__.
NewConfig(multi_modal, supported_modals, attention_module, mlp_module) ==
    /\ call' = [fn |-> "AdaptionPromptV2Config",
                raised |-> IF post_init(multi_modal, supported_modals) = NoError
                           THEN NoError ELSE "ValueError",
                message |-> post_init(multi_modal, supported_modals),
                model_type |-> None,
                given |-> [multi_modal |-> multi_modal, supported_modals |-> supported_modals,
                           attention_module |-> attention_module, mlp_module |-> mlp_module],
                config |-> [multi_modal |-> multi_modal, supported_modals |-> supported_modals,
                            attention_module |-> attention_module, mlp_module |-> mlp_module]]
    /\ UNCHANGED <<model_type, layers, configs, parents, cached_adapters, active_adapter,
                   enabled, requires_grad, last>>

\* prepare_config(peft_config, model) on the config the last call built.
PrepareConfig(mt) ==
    /\ call.fn = "AdaptionPromptV2Config"
    /\ call.raised = NoError
    /\ LET prepared == prepare_config(call.config, mt)
       IN call' = [fn |-> "prepare_config", raised |-> prepared.raised,
                   message |-> prepared.raised, model_type |-> mt,
                   given |-> call.config, config |-> prepared.config]
    /\ UNCHANGED <<model_type, layers, configs, parents, cached_adapters, active_adapter,
                   enabled, requires_grad, last>>

\* No model has been built: only the module-level functions are called.
InitConfig ==
    LET s == Pretrained("llama")
    IN /\ model_type = s.model_type
       /\ layers = s.layers
       /\ configs = s.configs
       /\ parents = s.parents
       /\ cached_adapters = s.cached_adapters
       /\ active_adapter = s.active_adapter
       /\ enabled = s.enabled
       /\ requires_grad = s.requires_grad
       /\ last = [op |-> "none", arg |-> None, raised |-> NoError]
       /\ call = NoCall

NextConfig ==
    \/ \E multi_modal \in BOOLEAN, supported_modals \in ModalListInputs,
          attention_module \in ModuleNameInputs, mlp_module \in ModuleNameInputs :
           NewConfig(multi_modal, supported_modals, attention_module, mlp_module)
    \/ \E mt \in ModelTypeInputs : PrepareConfig(mt)

SpecConfig == InitConfig /\ [][NextConfig]_vars

(***************************************************************************)
(* Properties of the adapter lifecycle.                                    *)
(***************************************************************************)
AttnAttr == TRANSFORMERS_MODEL_CONFIG[model_type].attention_module
MlpAttr == TRANSFORMERS_MODEL_CONFIG[model_type].mlp_module

\* Decoder layer i holds the modules of the pretrained model.
Original(i) ==
    /\ layers[i][AttnAttr] = BaseModule("Attention", i)
    /\ layers[i][MlpAttr] = BaseModule("MLP", i)

\* Decoder layer i holds the Adapted* modules adapter a created for it.
Wrapped(i, a) ==
    /\ layers[i][AttnAttr].cls = "AdaptedAttention"
    /\ layers[i][AttnAttr].owner = a
    /\ layers[i][AttnAttr].model = <<BaseModule("Attention", i)>>
    /\ layers[i][MlpAttr].cls = "AdaptedMLP"
    /\ layers[i][MlpAttr].owner = a
    /\ layers[i][MlpAttr].model = <<BaseModule("MLP", i)>>

\* Every registered adapter has multi_modal = False.
AllText == \A a \in DOMAIN configs : ~configs[a].multi_modal

\* C1: with text-only adapters (multi_modal = False), whenever the adapter
\* layers are disabled every decoder layer holds its original attention and
\* mlp modules: the model contains no Adapted* module.
C1_DisabledModelIsOriginal ==
    (AllText /\ ~enabled) => \A i \in Layers : Original(i)

\* C1 witness: a second adapter was added while the layers were disabled.
C1_Witness ==
    /\ AllText
    /\ ~enabled
    /\ Cardinality(DOMAIN configs) = 2
    /\ last.op = "add_adapter"
    /\ last.raised = NoError
    /\ \A i \in Layers : Original(i)

\* The Adapted* modules adapter a has installed on its parents, as
\* _remove_adapted_modules collects them.
Installed(a) ==
    [idx \in 1..Len(parents[a]) |->
        <<layers[parents[a][idx]][AttnAttr], layers[parents[a][idx]][MlpAttr]>>]

\* What set_adapter(B) is to leave behind when A was active.
Swapped(A, B) ==
    /\ last'.raised = NoError
    /\ active_adapter' = B
    /\ B \in DOMAIN cached_adapters
    /\ \A idx \in 1..Len(parents[B]) :
          /\ layers'[parents[B][idx]][AttnAttr] = cached_adapters[B][idx][1]
          /\ layers'[parents[B][idx]][MlpAttr] = cached_adapters[B][idx][2]
    /\ A \in DOMAIN cached_adapters'
    /\ cached_adapters'[A] = Installed(A)
    /\ \A idx \in 1..Len(parents[A]) :
          IsAdapted(Installed(A)[idx][1]) /\ IsAdapted(Installed(A)[idx][2])
    /\ B \notin DOMAIN cached_adapters'
    /\ \A i \in Layers :
          (InSeq(i, parents[A]) /\ ~InSeq(i, parents[B])) =>
              /\ layers'[i][AttnAttr] = BaseModule("Attention", i)
              /\ layers'[i][MlpAttr] = BaseModule("MLP", i)

\* C2: set_adapter(B) on an enabled model, B registered and not the active
\* adapter A: afterwards B is active, B's parents hold the modules that were
\* cached for B, A's Adapted* modules are cached under A, B is not cached,
\* and the parents of A that are not parents of B hold their originals.
C2_SetAdapterSwaps ==
    [][(/\ last'.op = "set_adapter"
        /\ enabled
        /\ last'.arg \in DOMAIN configs
        /\ last'.arg # active_adapter)
          => Swapped(active_adapter, last'.arg)]_vars

C4_TopLayersWrapped ==
    (/\ last.op \in {"__init__", "add_adapter"}
     /\ last.raised = NoError
     /\ enabled
     /\ ~configs[active_adapter].multi_modal
     /\ configs[active_adapter].adapter_layers \in 0..NumLayers)
        => \A i \in Layers :
              IF i > NumLayers - configs[active_adapter].adapter_layers
              THEN Wrapped(i, active_adapter)
              ELSE Original(i)

\* C5: every parameter of the pretrained model has requires_grad = False
\* from construction on, whatever is called.
C5_BaseModelFrozen ==
    \A p \in BaseParams : p \in DOMAIN requires_grad /\ ~requires_grad[p]

\* C5 witness: freeze_adaption_params has frozen adaption parameters of the
\* second adapter.
C5_Witness ==
    /\ last.op = "freeze_adaption_params"
    /\ last.raised = NoError
    /\ Cardinality(DOMAIN configs) = 2
    /\ \E p \in DOMAIN requires_grad :
          p.owner = active_adapter /\ p.pname = "adaption_gates" /\ ~requires_grad[p]
    /\ \A p \in BaseParams : ~requires_grad[p]

\* The fields of the model and the module attributes of every parent.
ModelUnchanged ==
    UNCHANGED <<configs, parents, cached_adapters, active_adapter, enabled, layers>>

\* C6: add_adapter with a name that is already registered raises ValueError
\* and leaves _configs, _parents, _cached_adapters, _active_adapter,
\* _enabled and the modules of every parent unchanged.
C6_DuplicateNameRejected ==
    [][(last'.op = "add_adapter" /\ last'.arg \in DOMAIN configs)
          => (last'.raised = "ValueError" /\ ModelUnchanged)]_vars

\* C6 witness: a registered, inactive adapter was added again.
C6_Witness ==
    /\ last.op = "add_adapter"
    /\ last.raised = "ValueError"
    /\ last.arg \in DOMAIN configs
    /\ last.arg # active_adapter

\* The number of modules whose name ends with the attention module name.
NumAttention ==
    LET names == named_modules(Self)
    IN Cardinality({k \in 1..Len(names) : EndsWith(names[k], AttnAttr)})

\* C7: add_adapter with adapter_layers greater than the number of attention
\* modules raises ValueError, changes nothing and does not register the name.
C7_TooManyLayersRejected ==
    [][LET N == NumAttention
       IN \A adapter_name \in AdapterNames, peft_config \in ConfigInputs :
          (/\ last'.op = "add_adapter"
           /\ last'.arg = adapter_name
           /\ peft_config.adapter_layers > N
           /\ AddAdapter(adapter_name, peft_config))
              => /\ last'.raised = "ValueError"
                 /\ ModelUnchanged
                 /\ (adapter_name \notin DOMAIN configs => adapter_name \notin DOMAIN configs')]_vars

\* C7 witness: a new name was refused; it is in neither _configs nor _parents.
C7_Witness ==
    /\ last.op = "add_adapter"
    /\ last.raised = "ValueError"
    /\ last.arg \notin DOMAIN configs
    /\ last.arg \notin DOMAIN parents
    /\ enabled

\* C8: set_adapter with the active adapter's name changes nothing;
\* set_adapter with an unregistered name raises ValueError and leaves
\* _active_adapter, _cached_adapters and the modules of every parent
\* unchanged, with the adapter layers enabled or disabled.
C8_SetAdapterNoOpAndUnknown ==
    [][(last'.op = "set_adapter") =>
          /\ (last'.arg = active_adapter) =>
                 (last'.raised = NoError /\ ModelUnchanged /\ UNCHANGED requires_grad)
          /\ (last'.arg # active_adapter /\ last'.arg \notin DOMAIN configs) =>
                 /\ last'.raised = "ValueError"
                 /\ UNCHANGED <<active_adapter, cached_adapters, layers>>]_vars

\* C8 witness: an unregistered name was refused while the layers were disabled.
C8_Witness ==
    /\ last.op = "set_adapter"
    /\ last.raised = "ValueError"
    /\ last.arg \notin DOMAIN configs
    /\ ~enabled

(***************************************************************************)
(* Properties of the module-level functions (under SpecConfig).            *)
(***************************************************************************)
\* C9: prepare_config raises ValueError for a model type other than llama,
\* gpt_neox, gptj and moss; otherwise it raises nothing, fills
\* attention_module and mlp_module with the defaults of the model type where
\* the field is None, and keeps every value the user supplied.
C9_PrepareConfig ==
    (call.fn = "prepare_config") =>
        IF call.model_type \in {"llama", "gpt_neox", "gptj", "moss"}
        THEN /\ call.raised = NoError
             /\ call.config.attention_module =
                    IF call.given.attention_module = None
                    THEN TRANSFORMERS_MODEL_CONFIG[call.model_type].attention_module
                    ELSE call.given.attention_module
             /\ call.config.mlp_module =
                    IF call.given.mlp_module = None
                    THEN TRANSFORMERS_MODEL_CONFIG[call.model_type].mlp_module
                    ELSE call.given.mlp_module
             /\ call.config.multi_modal = call.given.multi_modal
             /\ call.config.supported_modals = call.given.supported_modals
        ELSE call.raised = "ValueError"

\* C9 witness: a gptj model, the attention module named by the user and the
\* mlp module left to the defaults.
C9_Witness ==
    /\ call.fn = "prepare_config"
    /\ call.model_type = "gptj"
    /\ call.given.attention_module = "my_module"
    /\ call.given.mlp_module = None
    /\ call.config.attention_module = "my_module"
    /\ call.config.mlp_module = "mlp"

\* A list that holds the same name twice.
HasDuplicate(names) ==
    \E i, j \in 1..Len(names) : i < j /\ names[i] = names[j]

\* C10: constructing AdaptionPromptV2Config raises ValueError when
\* multi_modal is true and supported_modals is None or empty, and when
\* supported_modals holds the same name twice.
C10_ConfigRejected ==
    (call.fn = "AdaptionPromptV2Config") =>
        /\ (call.given.multi_modal /\
                (call.given.supported_modals.none \/ call.given.supported_modals.names = <<>>))
              => call.raised = "ValueError"
        /\ (~call.given.supported_modals.none /\ HasDuplicate(call.given.supported_modals.names))
              => call.raised = "ValueError"

\* C10 witness: a multi-modal config with an empty list of modals was refused.
C10_Witness ==
    /\ call.fn = "AdaptionPromptV2Config"
    /\ call.given.multi_modal
    /\ call.given.supported_modals = ListOf(<<>>)
    /\ call.raised = "ValueError"

\* C11: constructing AdaptionPromptV2Config with a non-empty supported_modals
\* list whose names are pairwise distinct and all non-empty raises nothing,
\* and the "modal name can't be empty string." ValueError is raised only when
\* some name of supported_modals is the empty string.
C11_DistinctNonEmptyAccepted ==
    (call.fn = "AdaptionPromptV2Config") =>
        /\ (/\ ~call.given.supported_modals.none
            /\ call.given.supported_modals.names # <<>>
            /\ ~HasDuplicate(call.given.supported_modals.names)
            /\ ~InSeq("", call.given.supported_modals.names))
              => call.raised = NoError
        /\ (call.message = "modal name can't be empty string.")
              => InSeq("", call.given.supported_modals.names)

(***************************************************************************)
(* Properties of the adapter lifecycle with multi-modal adapters, and of   *)
(* the disable / enable round trip (under Spec).                           *)
(***************************************************************************)
\* The modules _create_adapted_modules installed for the multi-modal adapter
\* a are in place: the attention of its first parent is wrapped, the mlp of
\* its first parent is the original, every other parent is wrapped.
MultiModalInstalled(a) ==
    /\ a \in DOMAIN configs
    /\ a \in DOMAIN parents
    /\ configs[a].multi_modal
    /\ Len(parents[a]) > 0
    /\ layers[parents[a][1]][AttnAttr].cls = "AdaptedAttention"
    /\ layers[parents[a][1]][AttnAttr].owner = a
    /\ layers[parents[a][1]][AttnAttr].model = <<BaseModule("Attention", parents[a][1])>>
    /\ layers[parents[a][1]][MlpAttr] = BaseModule("MLP", parents[a][1])
    /\ \A idx \in 2..Len(parents[a]) : Wrapped(parents[a][idx], a)

\* After the step no parent of adapter a holds a module of a: its attention
\* and mlp are the originals, or wrappers of another adapter.
ParentsReleased(a) ==
    \A idx \in 1..Len(parents[a]) :
        /\ layers'[parents[a][idx]][AttnAttr].owner # a
        /\ layers'[parents[a][idx]][MlpAttr].owner # a

\* C12: with an active multi-modal adapter installed on an enabled model,
\* disable_adapter_layers, set_adapter to another registered adapter and
\* add_adapter of an adapter it accepts (a new name, no more adapter layers
\* than attention modules) raise nothing and take the adapter's modules
\* off every one of its parents, the first parent included;
\* disable_adapter_layers leaves every parent with its original modules.
C12_MultiModalSwapsOut ==
    [][(/\ enabled
        /\ MultiModalInstalled(active_adapter)
        /\ \/ last'.op = "disable_adapter_layers"
           \/ last'.op = "set_adapter" /\ last'.arg \in DOMAIN configs
                                       /\ last'.arg # active_adapter
           \/ last'.op = "add_adapter" /\ last'.raised # "ValueError")
          => /\ last'.raised = NoError
             /\ ParentsReleased(active_adapter)
             /\ (last'.op = "disable_adapter_layers") =>
                    \A idx \in 1..Len(parents[active_adapter]) :
                        /\ layers'[parents[active_adapter][idx]][AttnAttr] =
                               BaseModule("Attention", parents[active_adapter][idx])
                        /\ layers'[parents[active_adapter][idx]][MlpAttr] =
                               BaseModule("MLP", parents[active_adapter][idx])]_vars

\* The model after disable_adapter_layers() and then enable_adapter_layers().
DisabledThenEnabled == enable_adapter_layers(disable_adapter_layers(Self))

\* C13: from every enabled state whose active adapter has multi_modal =
\* False, disable_adapter_layers followed by enable_adapter_layers raises
\* nothing and gives back the state before the disable: the same Adapted*
\* modules on the same parents, the same cache, the same active adapter, and
\* _enabled = True.
C13_DisableEnableRoundTrip ==
    (/\ enabled
     /\ active_adapter \in DOMAIN configs
     /\ ~configs[active_adapter].multi_modal)
        => /\ disable_adapter_layers(Self).raised = NoError
           /\ DisabledThenEnabled = [Self EXCEPT !.raised = NoError]

\* The adapters that own an Adapted* module installed on a decoder layer.
InstalledOwners ==
    {layers[i][attr].owner :
        <<i, attr>> \in {x \in Layers \X {AttnAttr, MlpAttr} : IsAdapted(layers[x[1]][x[2]])}}

\* C14: the Adapted* modules installed in the model belong to at most one
\* adapter at any time.
C14_OneAdapterInstalled == Cardinality(InstalledOwners) <= 1

(***************************************************************************)
(* The forward pass: handle_origin_attention_module_outputs,               *)
(* organize_adapted_attention_model_outputs, AdaptedLinear,                *)
(* AdaptedAttention.  Tensors have bsz = q_len = num_heads = head_dim =    *)
(* adapter_len = 1, so a hidden state is one integer, a projection is one  *)
(* weight and one bias per output feature, and a softmax over the single   *)
(* adapter token is 1.                                                     *)
(***************************************************************************)
\* The largest magnitude of the hidden states and of trained parameters.
MaxValue == 1

\* A function call that returned value.
Returned(value) == [raised |-> NoError, value |-> value]

\* A function call that raised exc.
Raised(exc) == [raised |-> exc, value |-> <<>>]

\* handle_origin_attention_module_outputs(model_type, outputs); unpacking a
\* tuple whose length is not three raises ValueError, an index past the end
\* of a tuple IndexError.
handle_origin_attention_module_outputs(mt, outputs) ==
    IF mt = "llama"
    THEN IF Len(outputs) # 3
         THEN Raised("ValueError")
         ELSE Returned(<<outputs[1], outputs[3]>>)
    ELSE IF mt \in {"gpt_neox", "gptj", "moss"}
    THEN IF Len(outputs) < 2
         THEN Raised("IndexError")
         ELSE Returned(<<outputs[1], outputs[2]>>)
    ELSE Raised("ValueError")

\* organize_adapted_attention_model_outputs that uses the llama layout for
\* every model type.
organize_adapted_attention_model_outputs_LlamaLayout(mt, attn_output, attn_weights, past_key_value) ==
    IF mt \in {"llama", "gpt_neox", "gptj", "moss"}
    THEN Returned(<<attn_output, attn_weights, past_key_value>>)
    ELSE Raised("ValueError")

\* organize_adapted_attention_model_outputs(model_type, attn_output,
\* attn_weights, past_key_value)
organize_adapted_attention_model_outputs(mt, attn_output, attn_weights, past_key_value) ==
    IF mt = "llama"
    THEN Returned(<<attn_output, attn_weights, past_key_value>>)
    ELSE IF mt \in {"gpt_neox", "gptj", "moss"}
    THEN Returned(<<attn_output, past_key_value, attn_weights>>)
    ELSE Raised("ValueError")

\* nn.Linear over one input feature: one weight and one bias per output
\* feature (a bias of 0 where the layer has none).
Linear(weight, bias) == [cls |-> "Linear", weight |-> weight, bias |-> bias]

\* nn.Linear.forward
Linear_forward(m, x) == [j \in 1..Len(m.weight) |-> m.weight[j] * x + m.bias[j]]

\* An optional nn.Parameter: register_parameter(name, None), or a tensor.
NoParameter == [none |-> TRUE, value |-> <<>>]
Parameter(value) == [none |-> FALSE, value |-> value]

\* AdaptedLinear.__init__: adaption_bias = zeros([out_feat]) and
\* adaption_scale = ones([in_feat]), each only when asked for.
AdaptedLinear(model, add_bias, add_scale) ==
    [cls |-> "AdaptedLinear", model |-> model,
     adaption_bias |-> IF add_bias
                       THEN Parameter([j \in 1..Len(model.weight) |-> 0])
                       ELSE NoParameter,
     adaption_scale |-> IF add_scale THEN Parameter(<<1>>) ELSE NoParameter]

\* The input of the wrapped nn.Linear in AdaptedLinear.forward.
Scaled(m, x) == IF m.adaption_scale.none THEN x ELSE x * m.adaption_scale.value[1]

\* AdaptedLinear.forward
AdaptedLinear_forward(m, x) ==
    [j \in 1..Len(m.model.weight) |->
        IF m.adaption_bias.none
        THEN Linear_forward(m.model, Scaled(m, x))[j]
        ELSE Linear_forward(m.model, Scaled(m, x))[j] + m.adaption_bias.value[j]]

\* module(x) for a child of the attention module: the nn.Linear, or the
\* AdaptedLinear that _set_adapted_linears put in its place.
Call(m, x) ==
    IF m.cls = "AdaptedLinear" THEN AdaptedLinear_forward(m, x) ELSE Linear_forward(m, x)

\* The name of the projection that computes the query states.
QueryLayer(mt) ==
    CASE mt = "gpt_neox" -> "query_key_value"
      [] mt = "moss" -> "qkv_proj"
      [] OTHER -> "q_proj"

\* The attention module of the pretrained model with its nn.Linear children:
\* separate projections for llama and gptj, one fused projection of three
\* output features for gpt_neox and moss.
Attention(mt, v_weight, o_weight, o_bias) ==
    LET config == TRANSFORMERS_MODEL_CONFIG[mt]
    IN IF config.k_proj_layer = config.v_proj_layer
       THEN [n \in {config.k_proj_layer, config.o_proj_layer} |->
                IF n = config.o_proj_layer
                THEN Linear(<<o_weight>>, <<o_bias>>)
                ELSE IF mt = "moss"
                THEN Linear(<<1, v_weight, 1>>, <<0, 0, 0>>)
                ELSE Linear(<<1, 1, v_weight>>, <<0, 0, 0>>)]
       ELSE [n \in {"q_proj", config.k_proj_layer, config.v_proj_layer,
                    config.o_proj_layer} |->
                IF n = config.o_proj_layer THEN Linear(<<o_weight>>, <<o_bias>>)
                ELSE IF n = config.v_proj_layer THEN Linear(<<v_weight>>, <<0>>)
                ELSE Linear(<<1>>, <<0>>)]

\* The key and the value states the wrapped attention module computes from
\* the hidden state.
KeyStates(mt, model, x) ==
    CASE mt = "gpt_neox" -> Call(model["query_key_value"], x)[2]
      [] mt = "moss" -> Call(model["qkv_proj"], x)[3]
      [] OTHER -> Call(model["k_proj"], x)[1]

ValueStates(mt, model, x) ==
    CASE mt = "gpt_neox" -> Call(model["query_key_value"], x)[3]
      [] mt = "moss" -> Call(model["qkv_proj"], x)[2]
      [] OTHER -> Call(model["v_proj"], x)[1]

\* self.model(hidden_states): causal self-attention over one token attends
\* to that token with weight 1, so the output is the output projection of
\* the value states; the tuple has the layout of the model type.
Attention_forward(mt, model, hidden_states) ==
    IF mt = "llama"
    THEN <<Call(model[TRANSFORMERS_MODEL_CONFIG[mt].o_proj_layer],
                ValueStates(mt, model, hidden_states))[1],
           None,
           <<KeyStates(mt, model, hidden_states), ValueStates(mt, model, hidden_states)>> >>
    ELSE <<Call(model[TRANSFORMERS_MODEL_CONFIG[mt].o_proj_layer],
                ValueStates(mt, model, hidden_states))[1],
           <<KeyStates(mt, model, hidden_states), ValueStates(mt, model, hidden_states)>> >>

\* compute_query_states: the query projection of the hidden state (the
\* rotary embedding of position 0 is the identity).
compute_query_states(mt, model, hidden_states) ==
    Call(model[QueryLayer(mt)], hidden_states)[1]

\* F.softmax(scores, dim=-1) over the score of the single adapter token:
\* exp(s) / exp(s).
softmax(scores) == <<1>>

\* The keys of adaption_prompts and adaption_gates, in dict order.
Modals(supported_modals) ==
    IF Truthy(supported_modals) THEN supported_modals.names ELSE <<"text">>

\* AdaptedAttention.__init__ with the tensors of the forward pass: the
\* prompts are drawn by normal_(), the gates are zeros(1), and every
\* nn.Linear child of the wrapped module gets an AdaptedLinear.
AdaptedAttention_init(mt, model, add_bias, add_scale, supported_modals, prompts) ==
    [model_type |-> mt,
     model |-> model,
     modals |-> Modals(supported_modals),
     adaption_prompts |-> prompts,
     adaption_gates |-> [modal \in DOMAIN prompts |-> 0],
     linears |-> [n \in DOMAIN model |-> AdaptedLinear(model[n], add_bias, add_scale)]]

\* _set_adapted_linears
set_adapted_linears(self) ==
    [self EXCEPT !.model = [n \in DOMAIN self.model |-> self.linears[n]]]

\* _remove_adapted_linears
remove_adapted_linears(self) ==
    [self EXCEPT !.model = [n \in DOMAIN self.model |-> self.linears[n].model]]

\* The key and the value of the adaption prompt of a modal: the second and
\* third chunk of the fused projection, or the k and v projections.
AdapterKey(self, modal) ==
    IF TRANSFORMERS_MODEL_CONFIG[self.model_type].k_proj_layer =
           TRANSFORMERS_MODEL_CONFIG[self.model_type].v_proj_layer
    THEN Call(self.model[TRANSFORMERS_MODEL_CONFIG[self.model_type].k_proj_layer],
              self.adaption_prompts[modal])[2]
    ELSE Call(self.model[TRANSFORMERS_MODEL_CONFIG[self.model_type].k_proj_layer],
              self.adaption_prompts[modal])[1]

AdapterValue(self, modal) ==
    IF TRANSFORMERS_MODEL_CONFIG[self.model_type].k_proj_layer =
           TRANSFORMERS_MODEL_CONFIG[self.model_type].v_proj_layer
    THEN Call(self.model[TRANSFORMERS_MODEL_CONFIG[self.model_type].k_proj_layer],
              self.adaption_prompts[modal])[3]
    ELSE Call(self.model[TRANSFORMERS_MODEL_CONFIG[self.model_type].v_proj_layer],
              self.adaption_prompts[modal])[1]

\* scores = adaption_gates[modal] * softmax(query . key / sqrt(head_dim))
Scores(self, query_states, modal) ==
    self.adaption_gates[modal] * softmax(<<query_states * AdapterKey(self, modal)>>)[1]

\* adapter_output of a modal: matmul(scores, adapter_v), then the output
\* projection of the wrapped module.
AdapterOutput(self, query_states, modal) ==
    Call(self.model[TRANSFORMERS_MODEL_CONFIG[self.model_type].o_proj_layer],
         Scores(self, query_states, modal) * AdapterValue(self, modal))[1]

\* The loop that adds the adapter output of every modal to the output.
RECURSIVE AddAdapterOutputs(_, _, _, _)
AddAdapterOutputs(self, query_states, idx, output) ==
    IF idx > Len(self.modals)
    THEN output
    ELSE AddAdapterOutputs(self, query_states, idx + 1,
                           output + AdapterOutput(self, query_states, self.modals[idx]))

\* AdaptedAttention.forward once the adapted linears are set and the wrapped
\* module has returned origin.
ForwardAdapted(self, hidden_states, origin) ==
    IF origin.raised # NoError
    THEN [raised |-> origin.raised, self |-> self, value |-> <<>>]
    ELSE [raised |-> organize_adapted_attention_model_outputs(
                         self.model_type, 0, None, origin.value[2]).raised,
          self |-> remove_adapted_linears(self),
          value |-> organize_adapted_attention_model_outputs(
                        self.model_type,
                        AddAdapterOutputs(
                            self,
                            compute_query_states(self.model_type, self.model, hidden_states),
                            1, origin.value[1]),
                        None, origin.value[2]).value]

\* AdaptedAttention.forward(hidden_states, output_attention=...): the
\* exception raised, the module afterwards and the tuple returned.
AdaptedAttention_forward(self, hidden_states, output_attention) ==
    IF output_attention
    THEN [raised |-> "NotImplementedError", self |-> self, value |-> <<>>]
    ELSE ForwardAdapted(
             set_adapted_linears(self), hidden_states,
             handle_origin_attention_module_outputs(
                 self.model_type,
                 Attention_forward(self.model_type, set_adapted_linears(self).model,
                                   hidden_states)))

(***************************************************************************)
(* The forward pass as a state machine: one AdaptedAttention is built      *)
(* around an attention module, its parameters are trained, and it is       *)
(* called.                                                                 *)
(***************************************************************************)
\* The supported_modals handed to AdaptedAttention.
ForwardModalInputs == {NoList, ListOf(<<"image">>), ListOf(<<"image", "text">>)}

\* The hidden states of the single token.
HiddenStates == (0 - MaxValue)..MaxValue

\* AdaptedAttention(config, model, adapter_len, add_bias, add_scale,
\* supported_modals) around the attention module of a model of type mt.
NewAdaptedAttention(mt, v_weight, o_bias, add_bias, add_scale, supported_modals, prompts) ==
    /\ call = NoCall
    /\ call' = [fn |-> "AdaptedAttention",
                module |-> AdaptedAttention_init(mt, Attention(mt, v_weight, 1, o_bias),
                                                 add_bias, add_scale, supported_modals,
                                                 prompts)]
    /\ UNCHANGED <<model_type, layers, configs, parents, cached_adapters, active_adapter,
                   enabled, requires_grad, last>>

\* An optimizer step: the trainable adaption gates, scales and biases of the
\* module take new values.
OptimizerStep(gate, scale, bias) ==
    /\ call.fn \in {"AdaptedAttention", "optimizer.step", "forward"}
    /\ call' = [fn |-> "optimizer.step",
                module |-> [call.module EXCEPT
                    !.adaption_gates = [modal \in DOMAIN @ |-> gate],
                    !.linears = [n \in DOMAIN @ |->
                        [@[n] EXCEPT
                            !.adaption_scale =
                                IF @.none THEN @ ELSE Parameter(<<scale>>),
                            !.adaption_bias =
                                IF @.none THEN @
                                ELSE Parameter([j \in 1..Len(@.value) |-> bias])]]]]
    /\ UNCHANGED <<model_type, layers, configs, parents, cached_adapters, active_adapter,
                   enabled, requires_grad, last>>

\* module(hidden_states, output_attention=...), next to what the wrapped
\* module returns for the same hidden states.
Forward(hidden_states, output_attention) ==
    /\ call.fn \in {"AdaptedAttention", "optimizer.step", "forward"}
    /\ call' = [fn |-> "forward",
                module |-> AdaptedAttention_forward(call.module, hidden_states,
                                                    output_attention).self,
                hidden_states |-> hidden_states,
                raised |-> AdaptedAttention_forward(call.module, hidden_states,
                                                    output_attention).raised,
                outputs |-> AdaptedAttention_forward(call.module, hidden_states,
                                                     output_attention).value,
                origin_outputs |-> Attention_forward(call.module.model_type,
                                                     call.module.model, hidden_states)]
    /\ UNCHANGED <<model_type, layers, configs, parents, cached_adapters, active_adapter,
                   enabled, requires_grad, last>>

NextForward ==
    \/ \E mt \in DOMAIN TRANSFORMERS_MODEL_CONFIG, v_weight \in {1, 2}, o_bias \in 0..MaxValue,
          add_bias \in BOOLEAN, add_scale \in BOOLEAN,
          supported_modals \in ForwardModalInputs :
          \E prompts \in [{Modals(supported_modals)[i] :
                              i \in 1..Len(Modals(supported_modals))} -> {1, 2}] :
              NewAdaptedAttention(mt, v_weight, o_bias, add_bias, add_scale,
                                  supported_modals, prompts)
    \/ \E gate \in 0..MaxValue, scale \in {1, 2}, bias \in {0, 1} :
          OptimizerStep(gate, scale, bias)
    \/ \E hidden_states \in HiddenStates, output_attention \in BOOLEAN :
          Forward(hidden_states, output_attention)

SpecForward == InitConfig /\ [][NextForward]_vars

\* Every adaption gate is 0, every adaption_scale is 1 and every
\* adaption_bias is 0: the values the parameters are created with.
ZeroInitialised(self) ==
    /\ \A modal \in DOMAIN self.adaption_gates : self.adaption_gates[modal] = 0
    /\ \A n \in DOMAIN self.linears :
          /\ self.linears[n].adaption_scale.none \/ self.linears[n].adaption_scale.value = <<1>>
          /\ self.linears[n].adaption_bias.none \/
                 \A j \in 1..Len(self.linears[n].adaption_bias.value) :
                     self.linears[n].adaption_bias.value[j] = 0

\* C15: when every adaption gate is 0, every adaption_scale is 1 and every
\* adaption_bias is 0, AdaptedAttention.forward returns the attention output
\* the wrapped module returns for the same hidden states, for every
\* supported model type and also when the output projection has a bias.
C15_ZeroInitKeepsOutput ==
    (/\ call.fn = "forward"
     /\ call.raised = NoError
     /\ ZeroInitialised(call.module))
        => call.outputs[1] = call.origin_outputs[1]

(***************************************************************************)
(* The two output functions on their own: a tuple is organized for a model *)
(* type and then handled as the output of a wrapped module.                *)
(***************************************************************************)
\* The objects passed as attn_output, attn_weights and past_key_value.
OutputValues == {None, "tensor_a", "tensor_b"}

\* organize_adapted_attention_model_outputs(mt, attn_output, attn_weights,
\* past_key_value)
Organize(mt, attn_output, attn_weights, past_key_value) ==
    /\ call' = [fn |-> "organize_adapted_attention_model_outputs",
                model_type |-> mt,
                attn_output |-> attn_output,
                attn_weights |-> attn_weights,
                past_key_value |-> past_key_value,
                raised |-> organize_adapted_attention_model_outputs(
                               mt, attn_output, attn_weights, past_key_value).raised,
                value |-> organize_adapted_attention_model_outputs(
                              mt, attn_output, attn_weights, past_key_value).value]
    /\ UNCHANGED <<model_type, layers, configs, parents, cached_adapters, active_adapter,
                   enabled, requires_grad, last>>

\* handle_origin_attention_module_outputs(mt, outputs) on the tuple the last
\* call organized.
Handle(mt) ==
    /\ call.fn = "organize_adapted_attention_model_outputs"
    /\ call.raised = NoError
    /\ call' = [fn |-> "handle_origin_attention_module_outputs",
                model_type |-> mt,
                organized_for |-> call.model_type,
                attn_output |-> call.attn_output,
                attn_weights |-> call.attn_weights,
                past_key_value |-> call.past_key_value,
                outputs |-> call.value,
                raised |-> handle_origin_attention_module_outputs(mt, call.value).raised,
                value |-> handle_origin_attention_module_outputs(mt, call.value).value]
    /\ UNCHANGED <<model_type, layers, configs, parents, cached_adapters, active_adapter,
                   enabled, requires_grad, last>>

NextOutputs ==
    \/ \E mt \in ModelTypeInputs, attn_output \in OutputValues,
          attn_weights \in OutputValues, past_key_value \in OutputValues :
          Organize(mt, attn_output, attn_weights, past_key_value)
    \/ \E mt \in ModelTypeInputs : Handle(mt)

SpecOutputs == InitConfig /\ [][NextOutputs]_vars

\* C16: for every supported model type t, organizing (o, w, p) gives
\* (o, w, p) for llama and (o, p, w) for gpt_neox, gptj and moss, and
\* handling the organized tuple with the same t gives back (o, p); both
\* functions raise ValueError for every other model type.
C16_OutputLayoutRoundTrip ==
    /\ (call.fn = "organize_adapted_attention_model_outputs") =>
          IF call.model_type = "llama"
          THEN /\ call.raised = NoError
               /\ call.value = <<call.attn_output, call.attn_weights, call.past_key_value>>
          ELSE IF call.model_type \in {"gpt_neox", "gptj", "moss"}
          THEN /\ call.raised = NoError
               /\ call.value = <<call.attn_output, call.past_key_value, call.attn_weights>>
          ELSE call.raised = "ValueError"
    /\ (call.fn = "handle_origin_attention_module_outputs") =>
          IF call.model_type \in {"llama", "gpt_neox", "gptj", "moss"}
          THEN (call.model_type = call.organized_for) =>
                   /\ call.raised = NoError
                   /\ call.value = <<call.attn_output, call.past_key_value>>
          ELSE call.raised = "ValueError"

\* C16 witness: a gptj tuple with distinct weights and past_key_value went
\* through both functions.
C16_Witness ==
    /\ call.fn = "handle_origin_attention_module_outputs"
    /\ call.model_type = "gptj"
    /\ call.organized_for = "gptj"
    /\ call.attn_weights # call.past_key_value
    /\ call.outputs = <<call.attn_output, call.past_key_value, call.attn_weights>>
    /\ call.value = <<call.attn_output, call.past_key_value>>

====
